---- MODULE Spec2Model ----
(***************************************************************************)
(* Warbler: users, messages, follow edges and like edges in four tables,   *)
(* a cookie session per client, and one action per route handler of        *)
(* app.py, each with the storage semantics of the models in models.py.     *)
(***************************************************************************)
EXTENDS Integers, Sequences, FiniteSets, TLC

VARIABLES
    users,       \* rows of table users
    messages,    \* rows of table messages
    follows,     \* rows of table follows
    likes,       \* rows of table likes
    nextUserId,  \* serial of users.id
    nextMsgId,   \* serial of messages.id
    nextLikeId,  \* serial of likes.id
    session,     \* per client: the id stored under CURR_USER_KEY, or NoUser
    inflight,    \* per client: a toggle_like request between its read and its commit
    resp,        \* the last response (or model-level result) produced
    utcnow,      \* the clock: what datetime.utcnow() returns
    default_timestamp,  \* the default of Message.timestamp in the running process
    headers      \* the headers of the last response, as the after-request hook left them

vars == <<users, messages, follows, likes, nextUserId, nextMsgId, nextLikeId,
          session, inflight, resp, utcnow, default_timestamp, headers>>

time == <<utcnow, default_timestamp>>

tables == <<users, messages, follows, likes>>

----------------------------------------------------------------------------
(* Bounds *)

MaxUserId == 2
MaxMsgId == 2
MaxLikeId == 2
NumSalts == 1
MaxTime == 2

Clients == {"c1", "c2"}

(* Python None, SQL NULL *)
None == "<None>"

(* The falsy value User.authenticate returns *)
PyFalse == [falsy |-> TRUE]

(* a query that finds no row: Python None as an object *)
NoneObj == [none |-> TRUE]

(* session without CURR_USER_KEY *)
NoUser == 0

Idle == [op |-> "idle"]

----------------------------------------------------------------------------
(* Inputs *)

UsernameInputs == {"alice", "bob", ""}
EmailInputs == {"a@w.io", "b@w.io", "nomail"}
PasswordInputs == {"secret1", "secret2", "short"}

(* what a browser can post to /signup: without an image URL, and one with *)
SignupForms ==
    [username : UsernameInputs, email : EmailInputs,
     password : PasswordInputs, image_url : {""}]
    \cup {[username |-> "bob", email |-> "b@w.io", password |-> "secret2",
            image_url |-> "pic.png"]}

(* the form of a request that posts nothing *)
NoForm == [username |-> None, email |-> None, password |-> None, image_url |-> None]

(* what a direct caller (the test suites, a seed script) passes to User.signup *)
SignupArgs ==
    [username : {"alice", "bob", None}, email : {"a@w.io", "b@w.io", None},
     password : {"secret1", "secret2"}, image_url : {None}]

LoginForms == [username : UsernameInputs, password : PasswordInputs]

----------------------------------------------------------------------------
(* forms.py *)

DataRequired(v) == v # None /\ v # ""

Email(v) == v \in {"a@w.io", "b@w.io"}

LengthMin6(v) == v # None /\ Len(v) >= 6

UserAddFormValid(method, f) ==
    /\ method = "POST"
    /\ DataRequired(f.username)
    /\ DataRequired(f.email) /\ Email(f.email)
    /\ LengthMin6(f.password)

LoginFormValid(method, f) ==
    /\ method = "POST"
    /\ DataRequired(f.username)
    /\ LengthMin6(f.password)

----------------------------------------------------------------------------
(* models.py: User *)

DefaultImageUrl == "/static/images/default-pic.png"
DefaultHeaderImageUrl == "/static/images/warbler-hero.jpg"

(* bcrypt.generate_password_hash(password) with the salt it drew *)
GeneratePasswordHash(password, salt) ==
    "$2b$" \o ToString(salt) \o "$" \o password

(* bcrypt.check_password_hash: rehash with the salt held in pw_hash, compare *)
CheckPasswordHash(pw_hash, password) ==
    \E salt \in 1..NumSalts : pw_hash = GeneratePasswordHash(password, salt)

check_password(user, password) == CheckPasswordHash(user.password, password)

(* mutant: the password stored as given *)
UserSignupPlaintext(id, username, email, password, image_url, salt) ==
    [id |-> id,
     username |-> username,
     email |-> email,
     password |-> password,
     image_url |-> IF image_url = None THEN DefaultImageUrl ELSE image_url,
     header_image_url |-> DefaultHeaderImageUrl,
     bio |-> None,
     location |-> None]

(* User.signup: the row added to the ORM session; a column default stands in
   for an attribute left None *)
UserSignup(id, username, email, password, image_url, salt) ==
    [id |-> id,
     username |-> username,
     email |-> email,
     password |-> GeneratePasswordHash(password, salt),
     image_url |-> IF image_url = None THEN DefaultImageUrl ELSE image_url,
     header_image_url |-> DefaultHeaderImageUrl,
     bio |-> None,
     location |-> None]

(* mutant: email not unique *)
UsersInsertOkNoEmailUnique(row) ==
    /\ row.email # None
    /\ row.username # None
    /\ row.password # None
    /\ \A u \in users : u.username # row.username

(* the constraints of table users an INSERT of row must meet *)
UsersInsertOk(row) ==
    /\ row.email # None
    /\ row.username # None
    /\ row.password # None
    /\ \A u \in users : u.email # row.email /\ u.username # row.username

(* User.query.get(id) *)
UserGet(id) ==
    IF \E u \in users : u.id = id
    THEN CHOOSE u \in users : u.id = id
    ELSE NoneObj

(* mutant: the first user of that name, whatever the password *)
AuthenticateAnyPassword(username, password) ==
    LET found == {u \in users : u.username = username} IN
    IF found # {} THEN CHOOSE u \in found : TRUE ELSE PyFalse

(* User.authenticate *)
Authenticate(username, password) ==
    LET found == {u \in users : u.username = username} IN
    IF found # {} /\ CheckPasswordHash((CHOOSE u \in found : TRUE).password, password)
    THEN CHOOSE u \in found : TRUE
    ELSE PyFalse

----------------------------------------------------------------------------
(* app.py: session helpers *)

(* mutant: a user made up from the id of the session when no row has it *)
GUserTrustsSession(c) ==
    IF session[c] = NoUser THEN NoneObj
    ELSE IF \E u \in users : u.id = session[c] THEN UserGet(session[c])
    ELSE UserSignup(session[c], "ghost", "ghost@w.io", "secret1", None, 1)

(* add_user_to_g: g.user for a request of client c *)
GUser(c) ==
    IF session[c] # NoUser THEN UserGet(session[c]) ELSE NoneObj

do_login(c, user) == session' = [session EXCEPT ![c] = user.id]

do_logout(c) == session' = [session EXCEPT ![c] = NoUser]

(* mutant: the key left in the session *)
UserLogoutKeepsKey(c) == session' = session

(* User.logout: session.clear() *)
UserLogout(c) == session' = [session EXCEPT ![c] = NoUser]

Response(route, status, exc) == [route |-> route, status |-> status, exc |-> exc]

(* mutant: the code left at the default of redirect *)
RedirectFound(route, location, code) ==
    [route |-> route, status |-> 302, exc |-> "", location |-> location]

(* redirect(location, code): an empty response of that status with the header
   Location *)
Redirect(route, location, code) ==
    [route |-> route, status |-> code, exc |-> "", location |-> location]

(* no response yet *)
NoHeaders == [h \in {} |-> ""]

(* the headers of a response as a view returns it *)
ResponseHeaders == [h \in {"Content-Type"} |-> "text/html; charset=utf-8"]

(* req.headers[name] = value *)
SetHeader(hs, name, value) ==
    [h \in DOMAIN hs \cup {name} |-> IF h = name THEN value ELSE hs[h]]

(* mutant: without the second assignment of Cache-Control *)
add_header_once(hs) ==
    SetHeader(SetHeader(SetHeader(hs,
        "Cache-Control", "no-cache, no-store, must-revalidate"),
        "Pragma", "no-cache"),
        "Expires", "0")

(* add_header: the four assignments in their order *)
add_header(hs) ==
    SetHeader(SetHeader(SetHeader(SetHeader(hs,
        "Cache-Control", "no-cache, no-store, must-revalidate"),
        "Pragma", "no-cache"),
        "Expires", "0"),
        "Cache-Control", "public, max-age=0")

(* app.after_request: every response a view or an error handler returns goes
   through add_header *)
AfterRequest == headers' = add_header(ResponseHeaders)

(* f"/users/{id}" *)
UserUrl(id) == "/users/" \o ToString(id)

----------------------------------------------------------------------------
(* app.py: signup, login, logout; and User.signup + commit called directly *)

Signup(c, method, f) ==
    /\ IF UserAddFormValid(method, f)
       THEN \E salt \in 1..NumSalts :
            LET user == UserSignup(nextUserId, f.username, f.email, f.password,
                                   IF f.image_url = "" THEN DefaultImageUrl
                                   ELSE f.image_url, salt)
            IN IF UsersInsertOk(user)
               THEN /\ nextUserId <= MaxUserId
                    /\ users' = users \cup {user}
                    /\ nextUserId' = nextUserId + 1
                    /\ do_login(c, user)
                    /\ resp' = Redirect("signup", "/", 302)
               ELSE /\ resp' = Response("signup", 200, "IntegrityError")
                    /\ UNCHANGED <<users, nextUserId, session>>
       ELSE /\ resp' = Response("signup", 200, "")
            /\ UNCHANGED <<users, nextUserId, session>>
    /\ UNCHANGED <<messages, follows, likes, nextMsgId, nextLikeId, inflight>>
    /\ UNCHANGED time
    /\ AfterRequest

UserSignupCommit(a) ==
    /\ \E salt \in 1..NumSalts :
       LET user == UserSignup(nextUserId, a.username, a.email, a.password,
                              a.image_url, salt)
       IN IF UsersInsertOk(user)
          THEN /\ nextUserId <= MaxUserId
               /\ users' = users \cup {user}
               /\ nextUserId' = nextUserId + 1
               /\ resp' = Response("User.signup", 0, "")
          ELSE /\ resp' = Response("User.signup", 0, "IntegrityError")
               /\ UNCHANGED <<users, nextUserId>>
    /\ UNCHANGED <<messages, follows, likes, nextMsgId, nextLikeId, session, inflight>>
    /\ UNCHANGED time
    /\ UNCHANGED headers

Login(c, method, f) ==
    /\ IF LoginFormValid(method, f) /\ Authenticate(f.username, f.password) # PyFalse
       THEN /\ do_login(c, Authenticate(f.username, f.password))
            /\ resp' = Redirect("login", "/", 302)
       ELSE /\ resp' = Response("login", 200, "")
            /\ UNCHANGED session
    /\ UNCHANGED <<users, messages, follows, likes, nextUserId, nextMsgId,
                   nextLikeId, inflight>>
    /\ UNCHANGED time
    /\ AfterRequest

Logout(c) ==
    /\ UserLogout(c)
    /\ resp' = Redirect("logout", "/", 302)
    /\ UNCHANGED <<users, messages, follows, likes, nextUserId, nextMsgId,
                   nextLikeId, inflight>>
    /\ UNCHANGED time
    /\ AfterRequest

----------------------------------------------------------------------------
(* models.py: Message, Follows, Likes *)

(* times are counted from the instant models.py was first imported *)
ImportTime == 0

(* time passes *)
Tick ==
    /\ utcnow < MaxTime
    /\ utcnow' = utcnow + 1
    /\ UNCHANGED <<users, messages, follows, likes, nextUserId, nextMsgId,
                   nextLikeId, session, inflight, resp, default_timestamp, headers>>

(* the application process starts again and imports models.py: the default of
   Message.timestamp is datetime.utcnow() evaluated at the import. The tables
   and the clients' cookies outlive the process. *)
Restart ==
    /\ default_timestamp' = utcnow
    /\ inflight' = [c \in Clients |-> Idle]
    /\ resp' = Response("", 0, "")
    /\ headers' = NoHeaders
    /\ UNCHANGED <<users, messages, follows, likes, nextUserId, nextMsgId,
                   nextLikeId, session, utcnow>>

(* db.String(140) *)
TextMaxLen == 140

X10 == "xxxxxxxxxx"
X140 == X10 \o X10 \o X10 \o X10 \o X10 \o X10 \o X10 \o X10 \o X10 \o X10
            \o X10 \o X10 \o X10 \o X10
X141 == X140 \o "x"

TextInputs == {"", "Hello", X140, X141}

(* Message(text=...) appended to user.messages, as flushed *)
NewMessage(id, text, user) ==
    [id |-> id, text |-> text, timestamp |-> default_timestamp, user_id |-> user.id]

(* mutant: the length of text not limited *)
MessagesInsertExcAnyLength(row) ==
    IF row.text = None THEN "IntegrityError"
    ELSE IF ~\E u \in users : u.id = row.user_id THEN "IntegrityError"
    ELSE ""

(* the constraints of table messages an INSERT of row must meet: the
   exception raised, "" when there is none *)
MessagesInsertExc(row) ==
    IF row.text = None THEN "IntegrityError"
    ELSE IF Len(row.text) > TextMaxLen THEN "DataError"
    ELSE IF ~\E u \in users : u.id = row.user_id THEN "IntegrityError"
    ELSE ""

(* Message.query.get(id) *)
MessageGet(id) ==
    IF \E m \in messages : m.id = id
    THEN CHOOSE m \in messages : m.id = id
    ELSE NoneObj

(* mutant: the two columns of the edge exchanged *)
FollowEdgeSwapped(follower, followed) ==
    [user_being_followed_id |-> follower.id, user_following_id |-> followed.id]

(* the row of follows for follower following followed *)
FollowEdge(follower, followed) ==
    [user_being_followed_id |-> followed.id, user_following_id |-> follower.id]

(* mutant: the joins of User.followers *)
FollowingReversed(user) ==
    {u \in users : \E f \in follows :
        f.user_being_followed_id = user.id /\ f.user_following_id = u.id}

(* User.following *)
Following(user) ==
    {u \in users : \E f \in follows :
        f.user_following_id = user.id /\ f.user_being_followed_id = u.id}

(* User.followers *)
Followers(user) ==
    {u \in users : \E f \in follows :
        f.user_being_followed_id = user.id /\ f.user_following_id = u.id}

is_followed_by(user, other_user) ==
    Cardinality({u \in Followers(user) : u = other_user}) = 1

is_following(user, other_user) ==
    Cardinality({u \in Following(user) : u = other_user}) = 1

(* User.likes *)
Likes(user) ==
    {m \in messages : \E l \in likes : l.user_id = user.id /\ l.message_id = m.id}

(* Likes.query.filter_by(user_id, message_id).first(): the id of the row, 0
   when there is none *)
LikeLookup(user_id, message_id) ==
    LET found == {l \in likes : l.user_id = user_id /\ l.message_id = message_id} IN
    IF found = {} THEN 0 ELSE (CHOOSE l \in found : TRUE).id

(* mutant: table likes without user_message_uc *)
LikesInsertOkNoUnique(L, row) ==
    /\ \E u \in users : u.id = row.user_id
    /\ \E m \in messages : m.id = row.message_id

(* the constraints of table likes an INSERT of row into L must meet *)
LikesInsertOk(L, row) ==
    /\ \A l \in L : ~(l.user_id = row.user_id /\ l.message_id = row.message_id)
    /\ \E u \in users : u.id = row.user_id
    /\ \E m \in messages : m.id = row.message_id

----------------------------------------------------------------------------
(* app.py: the handlers *)

(* not g.user *)
Anonymous(c) == GUser(c) = NoneObj

(* mutant: the message attached to the first stored user *)
MessageOwnerFirstUser(c) ==
    CHOOSE u \in users : \A v \in users : u.id <= v.id

(* messages_add: the user the new message is appended to *)
MessageOwner(c) == GUser(c)

MessagesAdd(c, method, text) ==
    /\ IF session[c] = NoUser \/ GUser(c) = NoneObj
       THEN /\ resp' = Redirect("messages_add", "/", 401)
            /\ UNCHANGED <<messages, nextMsgId>>
       ELSE IF method = "POST" /\ DataRequired(text)
       THEN LET msg == NewMessage(nextMsgId, text, MessageOwner(c)) IN
            IF MessagesInsertExc(msg) = ""
            THEN /\ nextMsgId <= MaxMsgId
                 /\ messages' = messages \cup {msg}
                 /\ nextMsgId' = nextMsgId + 1
                 /\ resp' = Redirect("messages_add", UserUrl(MessageOwner(c).id), 302)
            ELSE /\ resp' = Response("messages_add", 500, MessagesInsertExc(msg))
                 /\ UNCHANGED <<messages, nextMsgId>>
       ELSE /\ resp' = Response("messages_add", 200, "")
            /\ UNCHANGED <<messages, nextMsgId>>
    /\ UNCHANGED <<users, follows, likes, nextUserId, nextLikeId, session, inflight>>
    /\ UNCHANGED time
    /\ AfterRequest

(* mutant: any logged-in user may delete *)
MayDestroyAnyUser(msg, user) == TRUE

(* messages_destroy: msg.user_id != g.user.id refuses *)
MayDestroy(msg, user) == msg.user_id = user.id

(* mutant: the lookup of get_or_404 *)
AbsentMessageNotFound(route) == Response(route, 404, "")

(* messages_destroy: msg.user_id where Message.query.get gave None raises
   AttributeError, which nothing catches *)
AbsentMessageUserId(route) == Response(route, 500, "AttributeError")

(* what rendering messages/show.html can come to: the page, and for an absent
   message also an error raised where the template reads the message *)
ShowTemplateOutcomes(msg) ==
    IF msg = NoneObj
    THEN {[status |-> 200, exc |-> ""], [status |-> 500, exc |-> "UndefinedError"]}
    ELSE {[status |-> 200, exc |-> ""]}

(* messages_show: Message.query.get, then render_template with what it gave *)
MessagesShow(message_id) ==
    /\ \E o \in ShowTemplateOutcomes(MessageGet(message_id)) :
         resp' = [route |-> "messages_show", status |-> o.status, exc |-> o.exc,
                  template |-> "messages/show.html",
                  message |-> MessageGet(message_id)]
    /\ UNCHANGED <<users, messages, follows, likes, nextUserId, nextMsgId,
                   nextLikeId, session, inflight>>
    /\ UNCHANGED time
    /\ AfterRequest

MessagesDestroy(c, message_id) ==
    /\ IF Anonymous(c)
       THEN /\ resp' = Redirect("messages_destroy", "/", 403)
            /\ UNCHANGED <<messages, likes>>
       ELSE IF MessageGet(message_id) = NoneObj
       THEN /\ resp' = AbsentMessageUserId("messages_destroy")
            /\ UNCHANGED <<messages, likes>>
       ELSE IF ~MayDestroy(MessageGet(message_id), GUser(c))
       THEN /\ resp' = Redirect("messages_destroy", "/", 403)
            /\ UNCHANGED <<messages, likes>>
       ELSE /\ messages' = messages \ {MessageGet(message_id)}
            /\ likes' = {l \in likes : l.message_id # message_id}
            /\ resp' = Redirect("messages_destroy", UserUrl(GUser(c).id), 302)
    /\ UNCHANGED <<users, follows, nextUserId, nextMsgId, nextLikeId, session, inflight>>
    /\ UNCHANGED time
    /\ AfterRequest

(* mutant: the delete goes through whatever rows name the user *)
UserDeleteExcsNone(user) == {}

(* db.session.delete(user) + commit: the exceptions the flush can raise, none
   when it goes through. User.messages has no delete cascade, so the flush sets
   user_id of the user's messages to NULL, which the column refuses; a follow
   edge of the user to themself is deleted once for User.followers and once
   more for User.following, and the second DELETE matches no row. *)
UserDeleteExcs(user) ==
    {e \in {"IntegrityError"} : \E m \in messages : m.user_id = user.id}
    \cup {e \in {"StaleDataError"} : FollowEdge(user, user) \in follows}

(* delete_user: do_logout comes before the delete, and the session is saved
   with the response also when the commit raises *)
DeleteUser(c) ==
    /\ IF Anonymous(c)
       THEN /\ resp' = Redirect("delete_user", "/", 302)
            /\ UNCHANGED <<users, follows, likes, session>>
       ELSE LET user == GUser(c) IN
            /\ do_logout(c)
            /\ IF UserDeleteExcs(user) = {}
               THEN /\ users' = users \ {user}
                    /\ follows' = {f \in follows :
                                     /\ f.user_being_followed_id # user.id
                                     /\ f.user_following_id # user.id}
                    /\ likes' = {l \in likes : l.user_id # user.id}
                    /\ resp' = Redirect("delete_user", "/signup", 302)
               ELSE /\ \E exc \in UserDeleteExcs(user) :
                         resp' = Response("delete_user", 500, exc)
                    /\ UNCHANGED <<users, follows, likes>>
    /\ UNCHANGED <<messages, nextUserId, nextMsgId, nextLikeId, inflight>>
    /\ UNCHANGED time
    /\ AfterRequest

(* mutant: a row for every append *)
FollowingAppendAlways(user, followed) == {FollowEdge(user, followed)}

(* user.following.append(followed) as the flush sees it: the rows to insert
   are those of the members that were not in the collection when it was
   loaded, so the append of a user already followed gives no row *)
FollowingAppend(user, followed) ==
    IF followed \in Following(user) THEN {} ELSE {FollowEdge(user, followed)}

(* the constraints of table follows an INSERT of row must meet: the primary
   key is the pair of columns *)
FollowsInsertOk(row) ==
    /\ row \notin follows
    /\ \E u \in users : u.id = row.user_being_followed_id
    /\ \E u \in users : u.id = row.user_following_id

(* add_follow: g.user.following.append + commit *)
AddFollow(c, follow_id) ==
    /\ IF Anonymous(c)
       THEN /\ resp' = Redirect("add_follow", "/", 302)
            /\ UNCHANGED follows
       ELSE IF UserGet(follow_id) = NoneObj
       THEN /\ resp' = Response("add_follow", 404, "")
            /\ UNCHANGED follows
       ELSE LET added == FollowingAppend(GUser(c), UserGet(follow_id)) IN
            IF \A row \in added : FollowsInsertOk(row)
            THEN /\ follows' = follows \cup added
                 /\ resp' = Redirect("add_follow", UserUrl(GUser(c).id) \o "/following", 302)
            ELSE /\ resp' = Response("add_follow", 500, "IntegrityError")
                 /\ UNCHANGED follows
    /\ UNCHANGED <<users, messages, likes, nextUserId, nextMsgId, nextLikeId,
                   session, inflight>>
    /\ UNCHANGED time
    /\ AfterRequest

(* stop_following: list.remove raises ValueError for what is not in the list *)
StopFollowing(c, follow_id) ==
    /\ IF Anonymous(c)
       THEN /\ resp' = Redirect("stop_following", "/", 302)
            /\ UNCHANGED follows
       ELSE IF UserGet(follow_id) \notin Following(GUser(c))
       THEN /\ resp' = Response("stop_following", 500, "ValueError")
            /\ UNCHANGED follows
       ELSE /\ follows' = follows \ {FollowEdge(GUser(c), UserGet(follow_id))}
            /\ resp' = Redirect("stop_following", UserUrl(GUser(c).id) \o "/following", 302)
    /\ UNCHANGED <<users, messages, likes, nextUserId, nextMsgId, nextLikeId,
                   session, inflight>>
    /\ UNCHANGED time
    /\ AfterRequest

(* mutant: a like is added whether or not one was found *)
ToggleLikeFlushAlwaysAdd(L, next_id, user_id, message_id, like_id) ==
    LET new_like == [id |-> next_id, user_id |-> user_id, message_id |-> message_id] IN
    IF LikesInsertOkNoUnique(L, new_like)
    THEN [likes |-> L \cup {new_like}, next_id |-> next_id + 1, exc |-> ""]
    ELSE [likes |-> L, next_id |-> next_id, exc |-> "IntegrityError"]

(* toggle_like from "if like:" to the commit, on the likes table L: like_id is
   the row the lookup found (0: none). The DELETE of a row that is gone
   matches nothing and is no error. *)
ToggleLikeFlush(L, next_id, user_id, message_id, like_id) ==
    IF like_id # 0
    THEN [likes |-> {l \in L : l.id # like_id}, next_id |-> next_id, exc |-> ""]
    ELSE LET new_like == [id |-> next_id, user_id |-> user_id, message_id |-> message_id] IN
         IF LikesInsertOk(L, new_like)
         THEN [likes |-> L \cup {new_like}, next_id |-> next_id + 1, exc |-> ""]
         ELSE [likes |-> L, next_id |-> next_id, exc |-> "IntegrityError"]

(* toggle_like after the commit: redirect(request.referrer or
   url_for('homepage')) for a request that names no referrer *)
ToggleLikeResponse(exc) ==
    IF exc = "" THEN Redirect("toggle_like", "/", 302)
    ELSE Response("toggle_like", 500, exc)

(* toggle_like, the request handled without another request in between *)
ToggleLike(c, msg_id) ==
    /\ nextLikeId <= MaxLikeId \/ LikeLookup(session[c], msg_id) # 0
    /\ inflight[c] = Idle
    /\ IF Anonymous(c)
       THEN /\ resp' = Redirect("toggle_like", "/", 302)
            /\ UNCHANGED <<likes, nextLikeId>>
       ELSE IF MessageGet(msg_id) = NoneObj
       THEN /\ resp' = Response("toggle_like", 404, "")
            /\ UNCHANGED <<likes, nextLikeId>>
       ELSE LET r == ToggleLikeFlush(likes, nextLikeId, session[c], msg_id,
                                     LikeLookup(session[c], msg_id)) IN
            /\ likes' = r.likes
            /\ nextLikeId' = r.next_id
            /\ resp' = ToggleLikeResponse(r.exc)
    /\ UNCHANGED <<users, messages, follows, nextUserId, nextMsgId, session, inflight>>
    /\ UNCHANGED time
    /\ AfterRequest

(* toggle_like up to and including the Likes lookup *)
ToggleLikeRead(c, msg_id) ==
    /\ nextLikeId <= MaxLikeId \/ LikeLookup(session[c], msg_id) # 0
    /\ inflight[c] = Idle
    /\ ~Anonymous(c)
    /\ MessageGet(msg_id) # NoneObj
    /\ inflight' = [inflight EXCEPT ![c] =
                      [op |-> "toggle_like", user_id |-> session[c],
                       message_id |-> msg_id,
                       like_id |-> LikeLookup(session[c], msg_id)]]
    /\ UNCHANGED <<users, messages, follows, likes, nextUserId, nextMsgId,
                   nextLikeId, session, resp>>
    /\ UNCHANGED time
    /\ UNCHANGED headers

(* toggle_like from "if like:" on *)
ToggleLikeCommit(c) ==
    /\ inflight[c] # Idle
    /\ LET q == inflight[c]
           r == ToggleLikeFlush(likes, nextLikeId, q.user_id, q.message_id, q.like_id)
       IN /\ likes' = r.likes
          /\ nextLikeId' = r.next_id
          /\ resp' = ToggleLikeResponse(r.exc)
    /\ inflight' = [inflight EXCEPT ![c] = Idle]
    /\ UNCHANGED <<users, messages, follows, nextUserId, nextMsgId, session>>
    /\ UNCHANGED time
    /\ AfterRequest

(* .limit(100) of users_show and homepage *)
FeedLimit == 100

(* .order_by(Message.timestamp.desc()): the orders in which the database may
   return rows, rows of equal timestamp in any order *)
OrderByTimestampDesc(rows) ==
    {q \in [1..Cardinality(rows) -> rows] :
       /\ \A i, j \in 1..Cardinality(rows) : i # j => q[i] # q[j]
       /\ \A i, j \in 1..Cardinality(rows) : i < j => q[i].timestamp >= q[j].timestamp}

(* .limit(n): the first n rows *)
Limit(q, n) == SubSeq(q, 1, IF Len(q) < n THEN Len(q) ELSE n)

(* render_template(template, messages=messages) *)
Page(route, template, msgs) ==
    [route |-> route, status |-> 200, exc |-> "", template |-> template,
     messages |-> msgs]

(* users_show: the results the messages query may give *)
UsersShowMessages(user_id) ==
    {Limit(q, FeedLimit) :
       q \in OrderByTimestampDesc({m \in messages : m.user_id = user_id})}

(* mutant: the messages of every user *)
HomepageFilterAll(following_ids) == messages

(* homepage: Message.user_id.in_(following_ids) *)
HomepageFilter(following_ids) == {m \in messages : m.user_id \in following_ids}

(* homepage: the results the messages query may give for g.user *)
HomepageMessages(user) ==
    LET following_ids == {u.id : u \in Following(user)} \cup {user.id} IN
    {Limit(q, FeedLimit) : q \in OrderByTimestampDesc(HomepageFilter(following_ids))}

Homepage(c) ==
    /\ IF ~Anonymous(c)
       THEN \E q \in HomepageMessages(GUser(c)) : resp' = Page("homepage", "home.html", q)
       ELSE resp' = Page("homepage", "home-anon.html", <<>>)
    /\ UNCHANGED <<users, messages, follows, likes, nextUserId, nextMsgId,
                   nextLikeId, session, inflight>>
    /\ UNCHANGED time
    /\ AfterRequest

(* what a browser posts to /users/profile *)
ProfileForms ==
    [username : {"alice", "bob"}, email : {"a@w.io", "b@w.io"},
     password : {"secret1", "secret2"}, image_url : {""},
     header_image_url : {""}, bio : {"hi"}, location : {""}]

NoProfileForm ==
    [username |-> None, email |-> None, password |-> None, image_url |-> None,
     header_image_url |-> None, bio |-> None, location |-> None]

(* profile: the attributes assigned from the form *)
ProfileEdit(user, f) ==
    [user EXCEPT
       !.username = f.username,
       !.email = f.email,
       !.image_url = IF f.image_url \in {"", None} THEN user.image_url ELSE f.image_url,
       !.header_image_url = IF f.header_image_url \in {"", None}
                            THEN user.header_image_url ELSE f.header_image_url,
       !.bio = f.bio,
       !.location = f.location]

(* mutant: username and email not unique *)
UsersUpdateOkNoUnique(old, row) ==
    /\ row.email # None
    /\ row.username # None
    /\ row.password # None

(* the constraints of table users an UPDATE of row old to row must meet *)
UsersUpdateOk(old, row) ==
    /\ row.email # None
    /\ row.username # None
    /\ row.password # None
    /\ \A u \in users \ {old} : u.email # row.email /\ u.username # row.username

(* mutant: the password of the form not asked for *)
ProfileAuthenticatedAlways(user, password) == TRUE

(* profile: User.authenticate(user.username, form.password.data) *)
ProfileAuthenticated(user, password) ==
    Authenticate(user.username, password) # PyFalse

(* profile: an IntegrityError of the commit is not caught *)
Profile(c, method, f) ==
    /\ IF Anonymous(c)
       THEN /\ resp' = Redirect("profile", "/", 302)
            /\ UNCHANGED users
       ELSE LET user == GUser(c) IN
            IF UserAddFormValid(method, f) /\ ProfileAuthenticated(user, f.password)
            THEN IF UsersUpdateOk(user, ProfileEdit(user, f))
                 THEN /\ users' = (users \ {user}) \cup {ProfileEdit(user, f)}
                      /\ resp' = Redirect("profile", UserUrl(user.id), 302)
                 ELSE /\ resp' = Response("profile", 500, "IntegrityError")
                      /\ UNCHANGED users
            ELSE /\ resp' = Response("profile", 200, "")
                 /\ UNCHANGED users
    /\ UNCHANGED <<messages, follows, likes, nextUserId, nextMsgId, nextLikeId,
                   session, inflight>>
    /\ UNCHANGED time
    /\ AfterRequest

(* mutant: users_show without its "if not g.user" *)
UsersShowResponseNoCheck(c, user_id) ==
    IF UserGet(user_id) = NoneObj THEN Response("users_show", 404, "")
    ELSE Response("users_show", 200, "")

(* users_show: redirect("/", 403), get_or_404, render_template *)
UsersShowResponse(c, user_id) ==
    IF Anonymous(c) THEN Redirect("users_show", "/", 403)
    ELSE IF UserGet(user_id) = NoneObj THEN Response("users_show", 404, "")
    ELSE Response("users_show", 200, "")

UsersShow(c, user_id) ==
    /\ IF UsersShowResponse(c, user_id).status = 200
       THEN \E q \in UsersShowMessages(user_id) :
              resp' = Page("users_show", "users/show.html", q)
       ELSE resp' = UsersShowResponse(c, user_id)
    /\ UNCHANGED <<users, messages, follows, likes, nextUserId, nextMsgId,
                   nextLikeId, session, inflight>>
    /\ UNCHANGED time
    /\ AfterRequest

(* show_following, users_followers, show_likes *)
ListingRoutes == {"show_following", "users_followers", "show_likes"}

(* redirect("/"), get_or_404, render_template *)
ShowListingResponse(route, c, user_id) ==
    IF Anonymous(c) THEN Redirect(route, "/", 302)
    ELSE IF UserGet(user_id) = NoneObj THEN Response(route, 404, "")
    ELSE Response(route, 200, "")

ShowListing(route, c, user_id) ==
    /\ resp' = ShowListingResponse(route, c, user_id)
    /\ UNCHANGED <<users, messages, follows, likes, nextUserId, nextMsgId,
                   nextLikeId, session, inflight>>
    /\ UNCHANGED time
    /\ AfterRequest

----------------------------------------------------------------------------
(* Specifications *)

Init ==
    /\ utcnow = ImportTime
    /\ default_timestamp = ImportTime
    /\ headers = NoHeaders
    /\ users = {}
    /\ messages = {}
    /\ follows = {}
    /\ likes = {}
    /\ nextUserId = 1
    /\ nextMsgId = 1
    /\ nextLikeId = 1
    /\ session = [c \in Clients |-> NoUser]
    /\ inflight = [c \in Clients |-> Idle]
    /\ resp = Response("", 0, "")

DoSignup ==
    \/ \E c \in Clients, f \in SignupForms : Signup(c, "POST", f)
    \/ \E c \in Clients : Signup(c, "GET", NoForm)
DoUserSignupCommit == \E a \in SignupArgs : UserSignupCommit(a)
DoLogin ==
    \/ \E c \in Clients, f \in LoginForms : Login(c, "POST", f)
    \/ \E c \in Clients : Login(c, "GET", NoForm)
DoLogout == \E c \in Clients : Logout(c)

(* the two users every test suite's setUp signs up *)
SeedArgs ==
    <<[username |-> "alice", email |-> "a@w.io", password |-> "secret1", image_url |-> None],
      [username |-> "bob", email |-> "b@w.io", password |-> "secret2", image_url |-> None]>>

SeedUser(i, salt) ==
    UserSignup(i, SeedArgs[i].username, SeedArgs[i].email, SeedArgs[i].password,
               SeedArgs[i].image_url, salt)

InitSeeded ==
    /\ utcnow = ImportTime
    /\ default_timestamp = ImportTime
    /\ headers = NoHeaders
    /\ users = {SeedUser(1, 1), SeedUser(2, 1)}
    /\ messages = {}
    /\ follows = {}
    /\ likes = {}
    /\ nextUserId = 3
    /\ nextMsgId = 1
    /\ nextLikeId = 1
    /\ session = [c \in Clients |-> NoUser]
    /\ inflight = [c \in Clients |-> Idle]
    /\ resp = Response("", 0, "")

(* the seeded users, and a message alice has posted *)
InitPosted ==
    /\ utcnow = ImportTime
    /\ default_timestamp = ImportTime
    /\ headers = NoHeaders
    /\ users = {SeedUser(1, 1), SeedUser(2, 1)}
    /\ messages = {NewMessage(1, "Hello", SeedUser(1, 1))}
    /\ follows = {}
    /\ likes = {}
    /\ nextUserId = 3
    /\ nextMsgId = 2
    /\ nextLikeId = 1
    /\ session = [c \in Clients |-> NoUser]
    /\ inflight = [c \in Clients |-> Idle]
    /\ resp = Response("", 0, "")

(* logins with the seeded users' names and passwords *)
SeedLoginForms == [username : {"alice", "bob"}, password : {"secret1", "secret2"}]

UserIds == 1..(MaxUserId + 1)
MsgIds == 1..(MaxMsgId + 1)

DoSeedLogin == \E c \in Clients, f \in SeedLoginForms : Login(c, "POST", f)
DoMessagesAdd ==
    \/ \E c \in Clients, text \in TextInputs : MessagesAdd(c, "POST", text)
    \/ \E c \in Clients : MessagesAdd(c, "GET", None)
DoPost == \E c \in Clients : MessagesAdd(c, "POST", "Hello")
DoMessagesShow == \E id \in MsgIds : MessagesShow(id)
DoMessagesDestroy == \E c \in Clients, id \in MsgIds : MessagesDestroy(c, id)
DoDeleteUser == \E c \in Clients : DeleteUser(c)
DoAddFollow == \E c \in Clients, id \in UserIds : AddFollow(c, id)
DoStopFollowing == \E c \in Clients, id \in UserIds : StopFollowing(c, id)
DoToggleLike == \E c \in Clients, id \in MsgIds : ToggleLike(c, id)
DoToggleLikeRead == \E c \in Clients, id \in MsgIds : ToggleLikeRead(c, id)
DoToggleLikeCommit == \E c \in Clients : ToggleLikeCommit(c)
DoUsersShow == \E c \in Clients, id \in UserIds : UsersShow(c, id)
DoShowListing == \E route \in ListingRoutes, c \in Clients, id \in UserIds : ShowListing(route, c, id)

NextAuth == DoSignup \/ DoUserSignupCommit \/ DoLogin \/ DoLogout

SpecAuth == Init /\ [][NextAuth]_vars

(* posting and deleting messages, and deleting accounts *)
NextMsg ==
    \/ DoSeedLogin \/ DoLogout \/ DoMessagesAdd \/ DoMessagesDestroy
    \/ DoDeleteUser \/ DoMessagesShow

SpecMsg == InitSeeded /\ [][NextMsg]_vars

(* the pages of a user *)
NextView == DoSeedLogin \/ DoLogout \/ DoDeleteUser \/ DoUsersShow \/ DoShowListing

SpecView == InitSeeded /\ [][NextView]_vars

(* toggle_like requests that overlap each other and other requests *)
NextLike ==
    \/ DoSeedLogin \/ DoMessagesDestroy \/ DoDeleteUser
    \/ DoToggleLikeRead \/ DoToggleLikeCommit

SpecLike == InitPosted /\ [][NextLike]_vars

(* toggle_like requests handled one after the other *)
NextToggle ==
    \/ DoSeedLogin \/ DoLogout \/ DoPost \/ DoToggleLike \/ DoMessagesDestroy
    \/ DoDeleteUser

SpecToggle == InitPosted /\ [][NextToggle]_vars

(* the follow graph *)
NextFollow == DoSeedLogin \/ DoLogout \/ DoAddFollow \/ DoStopFollowing \/ DoDeleteUser

SpecFollow == InitSeeded /\ [][NextFollow]_vars

(* the session of a client over signups, logins, logouts, account deletions
   and requests for a protected page *)
SessionSignupForms ==
    {f \in SignupForms :
       \/ f.username = "alice" /\ f.password = "secret1" /\ f.email \in {"a@w.io", "nomail"}
       \/ f.username = "bob" /\ f.password = "secret2" /\ f.email \in {"a@w.io", "b@w.io"}}

DoSessionSignup == \E c \in Clients, f \in SessionSignupForms : Signup(c, "POST", f)

NextSession == DoSessionSignup \/ DoSeedLogin \/ DoLogout \/ DoDeleteUser \/ DoUsersShow

SpecSession == Init /\ [][NextSession]_vars

(* the feeds: bob has posted a message; one client logs in as alice, follows
   and unfollows and posts while time passes and the process restarts, the
   other client stays anonymous *)
InitFeed ==
    /\ utcnow = ImportTime
    /\ default_timestamp = ImportTime
    /\ headers = NoHeaders
    /\ users = {SeedUser(1, 1), SeedUser(2, 1)}
    /\ messages = {NewMessage(1, "Hello", SeedUser(2, 1))}
    /\ follows = {}
    /\ likes = {}
    /\ nextUserId = 3
    /\ nextMsgId = 2
    /\ nextLikeId = 1
    /\ session = [c \in Clients |-> NoUser]
    /\ inflight = [c \in Clients |-> Idle]
    /\ resp = Response("", 0, "")

DoFeedLogin ==
    \E f \in {f \in SeedLoginForms : f.username = "alice"} : Login("c1", "POST", f)
DoHomepage == \E c \in Clients : Homepage(c)

NextFeed ==
    \/ DoFeedLogin \/ DoPost \/ Tick \/ Restart \/ DoAddFollow \/ DoStopFollowing
    \/ DoHomepage \/ DoUsersShow

SpecFeed == InitFeed /\ [][NextFeed]_vars

DoProfile ==
    \/ \E c \in Clients, f \in ProfileForms : Profile(c, "POST", f)
    \/ \E c \in Clients : Profile(c, "GET", NoProfileForm)

(* accounts: signups, profile edits and deletions *)
NextProfile ==
    \/ DoSessionSignup \/ DoSeedLogin \/ DoLogout \/ DoProfile \/ DoDeleteUser

SpecProfile == Init /\ [][NextProfile]_vars

(* the protected routes, asked for with and without a current user. alice has
   posted a message; bob logged in from client c2 and then deleted his account
   from another client, so the session of c2 still holds his id. Client c1
   logs in as alice, and the profile form is the one alice would send. *)
InitGuard ==
    /\ utcnow = ImportTime
    /\ default_timestamp = ImportTime
    /\ headers = NoHeaders
    /\ users = {SeedUser(1, 1)}
    /\ messages = {NewMessage(1, "Hello", SeedUser(1, 1))}
    /\ follows = {}
    /\ likes = {}
    /\ nextUserId = 3
    /\ nextMsgId = 2
    /\ nextLikeId = 1
    /\ session = [c \in Clients |-> IF c = "c2" THEN SeedUser(2, 1).id ELSE NoUser]
    /\ inflight = [c \in Clients |-> Idle]
    /\ resp = Response("", 0, "")

GuardProfileForm ==
    [username |-> "alice", email |-> "a@w.io", password |-> "secret1",
     image_url |-> "", header_image_url |-> "", bio |-> "hi", location |-> ""]

DoGuardProfile == \E c \in Clients : Profile(c, "POST", GuardProfileForm)

NextGuard ==
    \/ DoFeedLogin \/ DoAddFollow \/ DoStopFollowing \/ DoGuardProfile
    \/ DoDeleteUser \/ DoPost \/ DoMessagesDestroy \/ DoToggleLike

SpecGuard == InitGuard /\ [][NextGuard]_vars

(* a session that outlives its user: alice has posted a message; bob logs in
   from both clients, follows, likes and posts, and deletes his account from
   one of them *)
DoStaleLogin ==
    \E c \in Clients : Login(c, "POST", [username |-> "bob", password |-> "secret2"])

NextStale ==
    \/ DoStaleLogin \/ DoDeleteUser \/ DoAddFollow \/ DoStopFollowing
    \/ DoGuardProfile \/ DoPost \/ DoMessagesDestroy \/ DoToggleLike
    \/ DoUsersShow \/ DoShowListing

SpecStale == InitPosted /\ [][NextStale]_vars

(* the session under signups that succeed and that are rejected, logins with
   right and wrong credentials, logouts, account deletions, posts and
   requests for the home page *)
NextCreds ==
    \/ DoSessionSignup \/ DoSeedLogin \/ DoLogout \/ DoDeleteUser \/ DoPost
    \/ DoHomepage

SpecCreds == Init /\ [][NextCreds]_vars

(* two users acting on each other's data: alice has posted a message. Client
   c1 logs in as alice, who follows and unfollows, posts, edits her profile
   and deletes messages; client c2 logs in as bob, who follows and unfollows,
   likes and unlikes, and deletes his account *)
DoFrameLogin ==
    \/ Login("c1", "POST", [username |-> "alice", password |-> "secret1"])
    \/ Login("c2", "POST", [username |-> "bob", password |-> "secret2"])
DoFramePost == MessagesAdd("c1", "POST", "Hello")
DoFrameProfile == Profile("c1", "POST", GuardProfileForm)
DoFrameDestroy == \E id \in MsgIds : MessagesDestroy("c1", id)
DoFrameLike == \E id \in MsgIds : ToggleLike("c2", id)
DoFrameDelete == DeleteUser("c2")

NextFrame ==
    \/ DoFrameLogin \/ DoAddFollow \/ DoStopFollowing \/ DoFrameLike \/ DoFramePost
    \/ DoFrameProfile \/ DoFrameDestroy \/ DoFrameDelete

SpecFrame == InitPosted /\ [][NextFrame]_vars

(* the tables over signup, posts, follows, likes and deletions: alice is
   stored and has posted a message; client c2 signs up as bob; both log in
   and delete their accounts, bob follows and unfollows, likes and unlikes,
   alice posts and deletes messages *)
InitRefs ==
    /\ utcnow = ImportTime
    /\ default_timestamp = ImportTime
    /\ headers = NoHeaders
    /\ users = {SeedUser(1, 1)}
    /\ messages = {NewMessage(1, "Hello", SeedUser(1, 1))}
    /\ follows = {}
    /\ likes = {}
    /\ nextUserId = 2
    /\ nextMsgId = 2
    /\ nextLikeId = 1
    /\ session = [c \in Clients |-> NoUser]
    /\ inflight = [c \in Clients |-> Idle]
    /\ resp = Response("", 0, "")

DoRefsSignup ==
    Signup("c2", "POST", [username |-> "bob", email |-> "b@w.io",
                          password |-> "secret2", image_url |-> ""])

DoRefsFollow == \E id \in UserIds : AddFollow("c2", id)
DoRefsUnfollow == \E id \in UserIds : StopFollowing("c2", id)

NextRefs ==
    \/ DoRefsSignup \/ DoFrameLogin \/ DoRefsFollow \/ DoRefsUnfollow
    \/ DoFrameLike \/ DoFramePost \/ DoFrameDestroy \/ DoDeleteUser

SpecRefs == InitRefs /\ [][NextRefs]_vars

----------------------------------------------------------------------------
(* Claims *)

SignupInputs == SignupArgs \cup SignupForms

(* a.username and a.email are given and no stored user holds either *)
Fresh(a) ==
    /\ a.username # None /\ a.email # None
    /\ \A u \in users : u.username # a.username /\ u.email # a.email

(* the step is User.signup(a) followed by commit, called directly or by /signup *)
SignupAttempt(a) ==
    \/ UserSignupCommit(a)
    \/ \E c \in Clients : UserAddFormValid("POST", a) /\ Signup(c, "POST", a)

(* C1: every signup with a username and an email not yet used creates a user
   that User.authenticate returns for the plaintext password, whose
   check_password accepts that password and no other, and whose stored
   password differs from the plaintext. *)
C1_SignupAuthenticates ==
    [][\A a \in SignupInputs :
         (resp'.route \in {"signup", "User.signup"} /\ Fresh(a) /\ SignupAttempt(a)) =>
           \E u \in users' \ users :
             /\ u.username = a.username /\ u.email = a.email
             /\ Authenticate(a.username, a.password)' = u
             /\ check_password(u, a.password)
             /\ \A p \in PasswordInputs \ {a.password} : ~check_password(u, p)
             /\ u.password # a.password]_vars

C1_Witness ==
    /\ resp.route \in {"signup", "User.signup"} /\ resp.exc = "" /\ resp.status # 200
    /\ Cardinality(users) = 2

(* C2: User.authenticate returns a user exactly when a stored user has that
   username and the password matches that user's stored hash, the user returned
   is that one, and in every other case it returns the falsy value. *)
C2_AuthenticateIff ==
    \A username \in UsernameInputs \cup {None, "carol"}, password \in PasswordInputs :
      LET r == Authenticate(username, password) IN
      /\ (r # PyFalse) <=>
            \E u \in users : u.username = username /\ check_password(u, password)
      /\ r # PyFalse => r \in users /\ r.username = username /\ check_password(r, password)

C2_Witness ==
    /\ resp.route = "login" /\ resp.status = 302
    /\ \E u \in users, p \in PasswordInputs :
         Authenticate(u.username, p) = PyFalse /\ LengthMin6(p)

(* C3: a signup attempt whose username or email is that of a stored user, or
   whose username is null, ends in a constraint violation and leaves the stored
   users as they were; /signup then leaves the session as it was. *)
C3_RejectedSignupPersistsNothing ==
    [][\A a \in SignupInputs :
         (/\ resp'.route \in {"signup", "User.signup"}
          /\ (a.username = None \/
              \E u \in users : u.username = a.username \/ u.email = a.email)
          /\ SignupAttempt(a)) =>
           /\ users' = users
           /\ session' = session
           /\ resp'.exc = "IntegrityError"]_vars

C3_Witness ==
    /\ resp.route = "signup" /\ resp.exc = "IntegrityError"
    /\ \E c \in Clients : session[c] = NoUser

(* a text MessageForm accepts and the text column holds *)
ValidText(text) == DataRequired(text) /\ Len(text) <= TextMaxLen

(* C4: a POST to /messages/new with valid text by a session whose stored id
   resolves to user X answers with a redirect and adds exactly one message row,
   with that text and user_id X; posted without a session user (no stored id,
   or one that resolves to no user) it adds no row and does not answer 200. *)
C4_MessagePostedAsSessionUser ==
    [][\A c \in Clients, text \in TextInputs :
         MessagesAdd(c, "POST", text) =>
           IF session[c] # NoUser /\ \E u \in users : u.id = session[c]
           THEN ValidText(text) =>
                  /\ resp'.status = 302
                  /\ \E m \in messages' \ messages :
                       /\ messages' = messages \cup {m}
                       /\ m.text = text
                       /\ m.user_id = session[c]
           ELSE messages' = messages /\ resp'.status # 200]_vars

C4_Witness ==
    /\ resp = Redirect("messages_add", UserUrl(2), 302)
    /\ \E m \in messages : m.user_id = 2 /\ m.text = X140
    /\ \E c \in Clients : session[c] = 2

(* C5: a POST to /messages/{id}/delete for a stored message removes it exactly
   when the session user is the message's owner; a request that is anonymous or
   by another user leaves the row stored and does not answer 200. *)
C5_OnlyOwnerDeletesMessage ==
    [][\A c \in Clients, id \in MsgIds :
         (MessagesDestroy(c, id) /\ MessageGet(id) # NoneObj) =>
           LET msg == MessageGet(id) IN
           IF session[c] # NoUser /\ (\E u \in users : u.id = session[c])
              /\ msg.user_id = session[c]
           THEN msg \notin messages'
           ELSE msg \in messages' /\ messages' = messages /\ resp'.status # 200]_vars

C5_Witness ==
    /\ resp = Redirect("messages_destroy", "/", 403)
    /\ messages # {}
    /\ \A c \in Clients : ~Anonymous(c)

(* C6: for every stored user id, /users/{id}, /users/{id}/following,
   /users/{id}/followers and /users/{id}/likes never answer 200 to a request
   without a logged-in session user, and answer 200 to a logged-in one. *)
C6_ProfilePagesNeedLogin ==
    \A c \in Clients, u \in users :
      /\ UsersShowResponse(c, u.id).status = 200 <=> ~Anonymous(c)
      /\ \A route \in ListingRoutes :
           ShowListingResponse(route, c, u.id).status = 200 <=> ~Anonymous(c)

C6_Witness ==
    /\ resp = Redirect("users_show", "/", 403)
    /\ \E c \in Clients : session[c] # NoUser /\ Anonymous(c)
    /\ \E c \in Clients : ~Anonymous(c)

(* C7: whatever toggle_like requests have been made and however they
   overlapped, table likes holds at most one row per (user_id, message_id). *)
C7_OneLikePerPair ==
    \A l1 \in likes, l2 \in likes :
      (l1.user_id = l2.user_id /\ l1.message_id = l2.message_id) => l1 = l2

(* a request that found no like is still to commit, and the like is stored *)
C7_Witness ==
    \E c \in Clients :
      /\ inflight[c] # Idle
      /\ inflight[c].like_id = 0
      /\ \E l \in likes :
           l.user_id = inflight[c].user_id /\ l.message_id = inflight[c].message_id

LikePairs(L) == {<<l.user_id, l.message_id>> : l \in L}

(* C8: a toggle_like of logged-in user U on stored message M adds the edge
   (U, M) when it was absent and removes it when it was present, changes no
   other edge, and a second toggle right after it gives back the set of edges
   there was before the first. *)
C8_ToggleTwiceRestores ==
    [][\A c \in Clients, id \in MsgIds :
         (ToggleLike(c, id) /\ ~Anonymous(c) /\ MessageGet(id) # NoneObj) =>
           LET U == session[c]
               before == LikePairs(likes)
               again == ToggleLikeFlush(likes', nextLikeId', U, id, LikeLookup(U, id)')
           IN /\ LikePairs(likes') =
                   IF <<U, id>> \in before THEN before \ {<<U, id>>}
                   ELSE before \cup {<<U, id>>}
              /\ Cardinality(likes') = Cardinality(LikePairs(likes'))
              /\ LikePairs(again.likes) = before
              /\ resp'.status = 302]_vars

C8_Witness ==
    /\ resp = Redirect("toggle_like", "/", 302)
    /\ likes = {}
    /\ nextLikeId = 2

(* C9: /users/delete succeeds for every logged-in user, and afterwards the
   user row, the user's messages, the like edges the user made or that point at
   those messages, and the follow edges of the user are gone. *)
C9_DeleteUserCascades ==
    [][\A c \in Clients :
         (DeleteUser(c) /\ ~Anonymous(c)) =>
           LET user == GUser(c)
               theirs == {m.id : m \in {m \in messages : m.user_id = user.id}}
           IN /\ resp'.status = 302
              /\ user \notin users'
              /\ \A m \in messages' : m.user_id # user.id
              /\ \A l \in likes' : l.user_id # user.id /\ l.message_id \notin theirs
              /\ \A f \in follows' :
                   f.user_being_followed_id # user.id /\ f.user_following_id # user.id]_vars

(* C10: for stored users A and B, A.is_following(B) and B.is_followed_by(A)
   both hold exactly when the follow edge with follower A and followed B is
   stored, so that edge alone makes neither B.is_following(A) nor
   A.is_followed_by(B) hold. *)
C10_FollowIsDirected ==
    \A A \in users, B \in users :
      LET AtoB == FollowEdge(A, B) \in follows
          BtoA == FollowEdge(B, A) \in follows
      IN /\ is_following(A, B) <=> AtoB
         /\ is_followed_by(B, A) <=> AtoB
         /\ (AtoB /\ ~BtoA) => (~is_following(B, A) /\ ~is_followed_by(A, B))

C10_Witness ==
    /\ resp.route = "add_follow" /\ resp.status = 302
    /\ \E A \in users, B \in users :
         /\ A # B
         /\ FollowEdge(A, B) \in follows
         /\ FollowEdge(B, A) \notin follows

(* C11: a successful /login and a successful /signup store the id of that
   user in the session, /logout removes it, the user of a request is the stored
   user of the session's id and there is none without an id, and a session
   without an id gets one only by a successful /login or /signup. *)
C11_SessionLifecycle ==
    [][\A c \in Clients :
         /\ \A f \in LoginForms :
              (resp'.route = "login" /\ Login(c, "POST", f) /\ resp'.status = 302) =>
                /\ session'[c] = Authenticate(f.username, f.password).id
                /\ GUser(c)' = Authenticate(f.username, f.password)
         /\ \A f \in SignupForms :
              (resp'.route = "signup" /\ Signup(c, "POST", f) /\ resp'.status = 302) =>
                \E u \in users' \ users :
                  u.username = f.username /\ session'[c] = u.id /\ GUser(c)' = u
         /\ Logout(c) => (session'[c] = NoUser /\ Anonymous(c)')
         /\ (session[c] = NoUser /\ session'[c] # NoUser) =>
              resp' \in {Redirect("login", "/", 302), Redirect("signup", "/", 302)}
         /\ \A id \in UserIds :
              UsersShow(c, id) =>
                (resp'.status = 403 <=>
                   (session[c] = NoUser \/ ~\E u \in users : u.id = session[c]))
         /\ GUser(c) # NoneObj => (GUser(c) \in users /\ GUser(c).id = session[c])]_vars

(* the one user there is signed up through /signup and has logged out *)
C11_Witness ==
    /\ resp = Redirect("logout", "/", 302)
    /\ Cardinality(users) = 1 /\ nextUserId = 2
    /\ \A c \in Clients : session[c] = NoUser

(* a feed q of the eligible messages E cut at n: only messages of E, each at
   most once, newest first, at most n, all of E when E has no more than n, and
   no message left out is newer than one listed *)
FeedOf(q, E, n) ==
    /\ \A i \in 1..Len(q) : q[i] \in E
    /\ \A i, j \in 1..Len(q) : i # j => q[i] # q[j]
    /\ \A i, j \in 1..Len(q) : i < j => q[i].timestamp >= q[j].timestamp
    /\ Len(q) <= n
    /\ Cardinality(E) <= n => Len(q) = Cardinality(E)
    /\ Cardinality(E) > n => Len(q) = n
    /\ \A m \in E : (\A i \in 1..Len(q) : q[i] # m) =>
                       \A i \in 1..Len(q) : m.timestamp <= q[i].timestamp

(* C12: the home page of logged-in user U lists messages of U and of the users
   U follows, the profile page of P lists messages of P, each list is a feed in
   the sense of FeedOf cut at 100, and the home page of an anonymous request
   lists no message. The cut is also tried at the lengths the tables here
   reach. *)
C12_Feeds ==
    [][/\ \A c \in Clients :
            Homepage(c) =>
              IF Anonymous(c) THEN resp'.messages = <<>>
              ELSE FeedOf(resp'.messages,
                          {m \in messages :
                             \/ m.user_id = session[c]
                             \/ [user_being_followed_id |-> m.user_id,
                                 user_following_id |-> session[c]] \in follows},
                          100)
       /\ \A c \in Clients, id \in UserIds :
            (UsersShow(c, id) /\ resp'.status = 200) =>
              FeedOf(resp'.messages, {m \in messages : m.user_id = id}, 100)
       /\ \A n \in 0..MaxMsgId, q \in OrderByTimestampDesc(messages) :
            FeedOf(Limit(q, n), messages, n)]_vars

(* alice, who does not follow bob, has posted after bob and is shown her home
   page: her message alone *)
C12_Witness ==
    /\ resp.route = "homepage" /\ resp.status = 200
    /\ Len(resp.messages) = 1
    /\ resp.messages[1].user_id = 1 /\ resp.messages[1].timestamp > 0
    /\ Cardinality(messages) = 2

(* C13: no two stored users have the same username or the same email, and a
   profile edit that names the username or the email of another stored user
   ends in a constraint violation and leaves the users as they were. *)
C13_UsernamesAndEmailsUnique ==
    [][/\ \A u \in users', v \in users' :
            (u.username = v.username \/ u.email = v.email) => u = v
       /\ \A c \in Clients, f \in ProfileForms :
            (/\ resp'.route = "profile"
             /\ Profile(c, "POST", f)
             /\ ~Anonymous(c)
             /\ \E u \in users \ {GUser(c)} :
                   u.username = f.username \/ u.email = f.email) =>
              /\ users' = users
              /\ resp'.status # 302]_vars

(* alice gave the right password and asked for the email of bob *)
C13_Witness ==
    /\ resp = Response("profile", 500, "IntegrityError")
    /\ Cardinality(users) = 2

(* the session of c names no stored user *)
NoCurrentUser(c) == session[c] = NoUser \/ ~\E u \in users : u.id = session[c]

(* the step is a request of client c to one of the protected mutating routes *)
ProtectedRequest(c) ==
    \/ \E id \in UserIds : AddFollow(c, id) \/ StopFollowing(c, id)
    \/ \E f \in ProfileForms : Profile(c, "POST", f)
    \/ DeleteUser(c)
    \/ \E text \in TextInputs : MessagesAdd(c, "POST", text)
    \/ \E id \in MsgIds : MessagesDestroy(c, id) \/ ToggleLike(c, id)

(* C14 as claimed: a request to a protected mutating route without a current
   user leaves the four tables as they were and is answered by a redirect (a
   response of a 3xx status) to the landing page. *)
C14_AnonymousRedirected ==
    [][\A c \in Clients :
         (NoCurrentUser(c) /\ ProtectedRequest(c)) =>
           /\ tables' = tables
           /\ resp'.status \in 300..399
           /\ resp'.location = "/"]_vars

(* C14 amended: such a request leaves the four tables as they were and is
   answered by a response whose Location is the landing page, of status 401 on
   /messages/new, 403 on /messages/{id}/delete and 302 on the other routes. *)
C14_AnonymousRefused ==
    [][\A c \in Clients :
         (NoCurrentUser(c) /\ ProtectedRequest(c)) =>
           /\ tables' = tables
           /\ resp'.location = "/"
           /\ resp'.status = (IF resp'.route = "messages_add" THEN 401
                              ELSE IF resp'.route = "messages_destroy" THEN 403
                              ELSE 302)]_vars

(* the session of c2, whose user is deleted, asked for /messages/new *)
C14_Witness ==
    /\ resp = Redirect("messages_add", "/", 401)
    /\ \E c \in Clients : session[c] # NoUser /\ NoCurrentUser(c)
    /\ messages # {} /\ follows # {} /\ likes # {}

(* the step is an add-follow request of client c, logged in, for a stored
   user that the user of c follows *)
DuplicateAddFollow(c, id) ==
    /\ AddFollow(c, id)
    /\ ~NoCurrentUser(c)
    /\ \E u \in users : u.id = id
    /\ [user_being_followed_id |-> id, user_following_id |-> session[c]] \in follows

(* C15 as claimed: follows holds at most one edge per (follower, followed),
   and an add-follow request for a user already followed ends in an unhandled
   error of the storage layer with the follow set as it was. *)
C15_DuplicateFollowRaises ==
    [][/\ \A f1 \in follows', f2 \in follows' :
            (/\ f1.user_following_id = f2.user_following_id
             /\ f1.user_being_followed_id = f2.user_being_followed_id) => f1 = f2
       /\ \A c \in Clients, id \in UserIds :
            DuplicateAddFollow(c, id) =>
              /\ resp'.exc = "IntegrityError"
              /\ resp'.status = 500
              /\ follows' = follows]_vars

(* C15 amended: follows holds at most one edge per (follower, followed), and
   an add-follow request for a user already followed inserts nothing: it ends
   in the redirect to the user's following page with the follow set as it
   was. *)
C15_DuplicateFollowIsNoOp ==
    [][/\ \A f1 \in follows', f2 \in follows' :
            (/\ f1.user_following_id = f2.user_following_id
             /\ f1.user_being_followed_id = f2.user_being_followed_id) => f1 = f2
       /\ \A c \in Clients, id \in UserIds :
            DuplicateAddFollow(c, id) =>
              /\ resp' = Redirect("add_follow", UserUrl(session[c]) \o "/following", 302)
              /\ follows' = follows]_vars

(* alice follows bob and herself, and the last request was an add-follow of
   hers that was answered by the redirect *)
C15_Witness ==
    /\ resp = Redirect("add_follow", "/users/1/following", 302)
    /\ Cardinality({f \in follows : f.user_following_id = 1}) = 2
    /\ \E c \in Clients : session[c] = 1

(* C16: a stop-following request of a logged-in user for a target that user
   does not follow, a stored user or an id of none, raises nothing: it is
   answered by the redirect to the user's following page and leaves follows as
   it was. *)
C16_StopFollowingAbsentIsNoOp ==
    [][\A c \in Clients, id \in UserIds :
         (/\ StopFollowing(c, id)
          /\ ~NoCurrentUser(c)
          /\ [user_being_followed_id |-> id, user_following_id |-> session[c]]
                \notin follows) =>
           /\ resp' = Redirect("stop_following", UserUrl(session[c]) \o "/following", 302)
           /\ follows' = follows]_vars

(* C17: a message posted through /messages/new gets the time of the request
   as its timestamp, and so a timestamp later than that of every message
   posted at an earlier time. *)
C17_TimestampIsPostingTime ==
    [][\A c \in Clients, text \in TextInputs :
         (MessagesAdd(c, "POST", text) /\ messages' # messages) =>
           \A m \in messages' \ messages : m.timestamp = utcnow]_vars

(* C18: every stored message has a text that is not null, not empty and of
   at most 140 characters, and the id of a user as user_id; a POST to
   /messages/new with an empty text or a text of more than 140 characters adds
   no message. *)
C18_StoredTextWithinBounds ==
    [][/\ \A m \in messages' :
            /\ m.text # None /\ m.text # ""
            /\ Len(m.text) <= 140
            /\ m.user_id \in Nat \ {NoUser}
       /\ \A c \in Clients, text \in TextInputs :
            (MessagesAdd(c, "POST", text) /\ (text = "" \/ Len(text) > 140)) =>
              messages' = messages]_vars

(* a text of 140 characters is stored, and one of 141 was just refused *)
C18_Witness ==
    /\ resp = Response("messages_add", 500, "DataError")
    /\ \E m \in messages : Len(m.text) = 140

(* C19: a POST to /users/profile changes a user row only when the password
   of the form checks against the stored hash of the current user, and then
   the row of the current user alone; with another password the users are
   left as they were, and no profile edit changes a stored password. *)
C19_ProfileEditNeedsPassword ==
    [][\A c \in Clients, f \in ProfileForms :
         (resp'.route = "profile" /\ Profile(c, "POST", f)) =>
           /\ users' # users =>
                \E u \in users :
                  /\ u.id = session[c]
                  /\ CheckPasswordHash(u.password, f.password)
                  /\ users \ {u} \subseteq users'
           /\ (\A u \in users :
                 u.id = session[c] => ~CheckPasswordHash(u.password, f.password)) =>
                users' = users
           /\ \A u \in users, v \in users' : u.id = v.id => u.password = v.password]_vars

(* alice has edited her profile, and her stored password is the one she
   signed up with *)
C19_Witness ==
    /\ resp = Redirect("profile", UserUrl(1), 302)
    /\ \E u \in users :
         /\ u.id = 1 /\ u.bio = "hi"
         /\ CheckPasswordHash(u.password, "secret1")
    /\ Cardinality(users) = 2

(* C20: a /messages/{id}/delete request of a logged-in user for an id of no
   stored message is not answered 404: it fails where user_id of the absent
   message is read, and no row is deleted; /messages/{id} for such an id is not
   answered 404 either: the template is rendered with an absent message. *)
C20_AbsentMessageNotRefused ==
    [][\A id \in MsgIds :
         (\A m \in messages : m.id # id) =>
           /\ \A c \in Clients :
                (MessagesDestroy(c, id) /\ ~NoCurrentUser(c)) =>
                  /\ resp'.status # 404
                  /\ resp'.exc = "AttributeError"
                  /\ messages' = messages /\ likes' = likes
           /\ MessagesShow(id) =>
                /\ resp'.status # 404
                /\ resp'.template = "messages/show.html"
                /\ resp'.message = NoneObj]_vars

(* a logged-in user asked to delete a message that is not stored, while
   another message is *)
C20_Witness ==
    /\ resp = Response("messages_destroy", 500, "AttributeError")
    /\ messages # {}

(* the session of c holds an id that no stored user has *)
StaleSession(c) == session[c] # NoUser /\ ~\E u \in users : u.id = session[c]

(* the step is a request of client c for one of the protected pages *)
ProtectedView(c) ==
    \E id \in UserIds :
       \/ UsersShow(c, id)
       \/ \E route \in ListingRoutes : ShowListing(route, c, id)

(* what a route answers to a request without the session key *)
RefusalOf(route) ==
    Redirect(route, "/",
             IF route = "messages_add" THEN 401
             ELSE IF route \in {"messages_destroy", "users_show"} THEN 403
             ELSE 302)

(* C21: a request to a protected route from a session whose id names no stored
   user is answered as the route answers a session without an id, and leaves
   users, messages, follows and likes as they were. *)
C21_StaleSessionIsAnonymous ==
    [][\A c \in Clients :
         (StaleSession(c) /\ (ProtectedRequest(c) \/ ProtectedView(c))) =>
           /\ tables' = tables
           /\ resp' = RefusalOf(resp'.route)]_vars

(* bob's account is deleted, a session still holds his id, and /messages/new
   has just refused a request *)
C21_Witness ==
    /\ resp = Redirect("messages_add", "/", 401)
    /\ \E c \in Clients : StaleSession(c)
    /\ messages # {}

(* C22: when a toggle_like request that found no edge for (U, M) commits,
   with U and M stored: if another request has stored the edge since, the
   commit ends in an IntegrityError that nothing handles and likes is as it
   was; otherwise it adds the one edge (U, M) and nothing else. So of two
   requests that both found no edge one inserts and the other fails, the pair
   never has two edges, and a commit answered by the redirect leaves the edge
   stored. *)
C22_RacingLikesOneInsert ==
    [][\A c \in Clients :
         (/\ ToggleLikeCommit(c)
          /\ inflight[c].like_id = 0
          /\ \E u \in users : u.id = inflight[c].user_id
          /\ \E m \in messages : m.id = inflight[c].message_id) =>
           LET pair == <<inflight[c].user_id, inflight[c].message_id>> IN
           /\ IF pair \in LikePairs(likes)
              THEN /\ resp' = Response("toggle_like", 500, "IntegrityError")
                   /\ likes' = likes
              ELSE /\ resp' = Redirect("toggle_like", "/", 302)
                   /\ \E l \in likes' \ likes :
                        /\ likes' = likes \cup {l}
                        /\ <<l.user_id, l.message_id>> = pair
           /\ Cardinality({l \in likes' : <<l.user_id, l.message_id>> = pair}) = 1]_vars

(* both users and the message are stored, one like was ever inserted and is
   stored, no request is under way, and the last commit was refused *)
C22_Witness ==
    /\ resp = Response("toggle_like", 500, "IntegrityError")
    /\ Cardinality(users) = 2 /\ messages # {}
    /\ Cardinality(likes) = 1 /\ nextLikeId = 2
    /\ \A c \in Clients : inflight[c] = Idle

(* C23: every response leaves the after-request hook with Pragma no-cache,
   Expires 0 and the Cache-Control value no-cache, no-store, must-revalidate. *)
C23_ResponsesForbidCaching ==
    headers # NoHeaders =>
      /\ headers["Pragma"] = "no-cache"
      /\ headers["Expires"] = "0"
      /\ headers["Cache-Control"] = "no-cache, no-store, must-revalidate"

(* the step is a successful POST /login of client c, and every form that
   makes this step names a stored user and carries that user's password, and
   the session of c holds that user's id *)
LoginSucceeds(c) ==
    LET posted == {f \in LoginForms :
                     Login(c, "POST", f) /\ resp' = Redirect("login", "/", 302)}
    IN /\ posted # {}
       /\ \A f \in posted :
            \E u \in users :
              /\ u.username = f.username /\ check_password(u, f.password)
              /\ session'[c] = u.id

(* a successful POST /signup of client c: the user is created by the request
   and the session of c holds the new id *)
SignupSucceeds(c) ==
    \E f \in SignupForms :
      /\ Signup(c, "POST", f)
      /\ resp' = Redirect("signup", "/", 302)
      /\ \E u \in users' \ users :
           /\ u.username = f.username
           /\ \A v \in users : v.id # u.id
           /\ session'[c] = u.id

(* C24: the user id a session stores changes only through a successful
   /login (to the user whose password was presented), a successful /signup
   (to the user it created), /logout or /users/delete (to none), and only in
   the session of the requesting client; a /login or /signup that fails
   leaves every session as it was. *)
C24_SessionChangesByCredentials ==
    [][/\ \A c \in Clients :
            session'[c] # session[c] =>
              /\ \A d \in Clients \ {c} : session'[d] = session[d]
              /\ \/ LoginSucceeds(c)
                 \/ SignupSucceeds(c)
                 \/ Logout(c) /\ session'[c] = NoUser
                 \/ DeleteUser(c) /\ session'[c] = NoUser
       /\ (resp'.route \in {"login", "signup"} /\ resp'.status # 302) =>
             session' = session]_vars

C24_Witness ==
    /\ resp = Response("login", 200, "")
    /\ \E u \in users : u.username = "bob" /\ session["c1"] = u.id
    /\ \E u \in users : u.username = "alice" /\ session["c2"] = u.id
    /\ \E m \in messages : m.user_id = session["c1"]

(* the rows of a table a step adds, removes or replaces *)
Changed(old, new) == (old \ new) \cup (new \ old)

(* the current user of client c is stored and has the id owner *)
Acting(c, owner) == ~NoCurrentUser(c) /\ GUser(c).id = owner

(* C25: a mutating request of a client whose current user is U changes only
   U's data. add_follow and stop_following change only follow edges whose
   follower is U; toggle_like only like edges whose user is U; /messages/new
   only adds a message of U; /users/profile only replaces U's row;
   messages_destroy removes only a message of U and the like edges on it;
   /users/delete removes only U, the follow edges with U at either end and
   U's like edges. Every other row is left as it was, and no step changes the
   text or the user_id of a message that stays stored. *)
C25_RequestsChangeOwnData ==
    [][/\ resp'.route \in {"add_follow", "stop_following"} =>
            /\ users' = users /\ messages' = messages /\ likes' = likes
            /\ \A c \in Clients, id \in UserIds :
                 (/\ follows' # follows
                  /\ AddFollow(c, id) \/ StopFollowing(c, id)) =>
                   \A f \in Changed(follows, follows') :
                     Acting(c, f.user_following_id)
       /\ resp'.route = "toggle_like" =>
            /\ users' = users /\ messages' = messages /\ follows' = follows
            /\ \A c \in Clients, id \in MsgIds :
                 (likes' # likes /\ ToggleLike(c, id)) =>
                   \A l \in Changed(likes, likes') : Acting(c, l.user_id)
       /\ resp'.route = "messages_add" =>
            /\ users' = users /\ follows' = follows /\ likes' = likes
            /\ messages \subseteq messages'
            /\ \A c \in Clients :
                 (messages' # messages /\ MessagesAdd(c, "POST", "Hello")) =>
                   \A m \in messages' \ messages : Acting(c, m.user_id)
       /\ resp'.route = "profile" =>
            /\ messages' = messages /\ follows' = follows /\ likes' = likes
            /\ {u.id : u \in users'} = {u.id : u \in users}
            /\ \A c \in Clients :
                 (users' # users /\ Profile(c, "POST", GuardProfileForm)) =>
                   \A u \in Changed(users, users') : Acting(c, u.id)
       /\ resp'.route = "messages_destroy" =>
            /\ users' = users /\ follows' = follows
            /\ messages' \subseteq messages /\ likes' \subseteq likes
            /\ \A l \in likes \ likes' :
                 \E m \in messages \ messages' : l.message_id = m.id
            /\ \A c \in Clients, id \in MsgIds :
                 (messages' # messages /\ MessagesDestroy(c, id)) =>
                   \A m \in messages \ messages' : Acting(c, m.user_id)
       /\ resp'.route = "delete_user" =>
            /\ messages' = messages
            /\ users' \subseteq users /\ follows' \subseteq follows
            /\ likes' \subseteq likes
            /\ \A c \in Clients :
                 (<<users, follows, likes>>' # <<users, follows, likes>>
                  /\ DeleteUser(c)) =>
                   /\ \A u \in users \ users' : Acting(c, u.id)
                   /\ \A f \in follows \ follows' :
                        \/ Acting(c, f.user_following_id)
                        \/ Acting(c, f.user_being_followed_id)
                   /\ \A l \in likes \ likes' : Acting(c, l.user_id)
       /\ \A m \in messages, n \in messages' : m.id = n.id => m = n]_vars

(* bob, who had liked a message, has just deleted his account: his like is
   gone; alice's edited row, her message and her edge to herself are kept *)
C25_Witness ==
    /\ resp = Redirect("delete_user", "/signup", 302)
    /\ \E u \in users : u.id = 1 /\ u.bio = "hi"
    /\ \A u \in users : u.id = 1
    /\ follows = {FollowEdge([id |-> 1], [id |-> 1])}
    /\ Cardinality(messages) = 2
    /\ nextLikeId = 3 /\ likes = {}

(* C26: in every reachable state every message's user_id, both user ids of
   every follow edge and every like edge's user_id name a stored user, and
   every like edge's message_id names a stored message. *)
C26_ReferentialIntegrity ==
    LET ids == {u.id : u \in users} IN
    /\ \A m \in messages : m.user_id \in ids
    /\ \A f \in follows :
         f.user_being_followed_id \in ids /\ f.user_following_id \in ids
    /\ \A l \in likes :
         /\ l.user_id \in ids
         /\ l.message_id \in {m.id : m \in messages}

(* alice has deleted her messages and then her account while bob, who signed
   up, followed her and liked a message, stays stored with no edge left *)
C26_Witness ==
    /\ resp = Redirect("delete_user", "/signup", 302)
    /\ \E u \in users : u.username = "bob"
    /\ \A u \in users : u.username = "bob"
    /\ messages = {} /\ follows = {} /\ likes = {}
    /\ nextLikeId > 1 /\ nextMsgId > 2

(* C27: after a /users/delete of a client with a current user, the session
   has lost its user if and only if the user's row has been removed. *)
C27_DeleteIsAllOrNothing ==
    [][\A c \in Clients :
         (resp'.route = "delete_user" /\ ~NoCurrentUser(c) /\ DeleteUser(c)) =>
           (session'[c] = NoUser <=> \A u \in users' : u.id # session[c])]_vars

====
